---- MODULE Spec2Model ----
(***************************************************************************)
(* Model of the two analysis scripts of the repository:                    *)
(*   script/samples.py  (selection, Table 1, stratified samples, CSVs)     *)
(*   script/table1.py   (selection, Table 1 in roster order, console)      *)
(* A data frame is modelled as the set of its rows (records); PR ids are   *)
(* unique within the pull-request table, as the data model requires.  The  *)
(* html_url column is carried through untouched by the scripts and is      *)
(* left out of the rows.  The order in which train_test_split shuffles its *)
(* output rows is not modelled: a sample is the set of rows it holds.      *)
(* Ids, repo ids and comment pr ids are integers (never null), so the      *)
(* astype(int) casts and the dropna() of table1.py change nothing.  The    *)
(* float arithmetic of sklearn's _approximate_mode is kept exact.          *)
(***************************************************************************)
EXTENDS Integers, Sequences, FiniteSets, TLC

\* ------------------------------------------------------------ configuration
MIN_STARS == 500
VALIDATE_AGREEMENT_SAMPLE == 30
AGENTS == <<"Claude_Code", "Copilot", "Cursor", "Devin", "OpenAI_Codex">>
BOT_LIST ==
    { "copilot-swe-agent[bot]", "cursor[bot]", "gemini-code-assist[bot]",
      "copilot-pull-request-reviewer[bot]", "coderabbitai[bot]",
      "ellipsis-dev[bot]", "greptile-apps[bot]",
      "entelligence-ai-pr-reviews[bot]", "Copilot",
      "github-advanced-security[bot]" }
EXPORT_COLS == {"id", "agent"}
CSV_NAMES ==
    { "sample_check_rejected.csv", "sample_check_accepts.csv",
      "manual_check_rejected.csv", "manual_check_accepted.csv" }
DATASETS == {"repository.parquet", "pull_request.parquet", "pr_comments.parquet"}

\* ------------------------------------------------------------------ state
VARIABLES
    script, pc, done, error, hf,
    out_dir, repos, prs, comments,
    repo_ids, selected, selected_ids, bot_assigned, human_commented_ids,
    excluded_ids, kept, kept_ids, table1,
    combined_accepted, combined_rejected,
    ACCEPT_SAMPLE_SIZE, REJECT_SAMPLE_SIZE,
    sample_check_rejected, reject_remaining,
    sample_check_accepts, accept_remaining,
    manual_check_rejected, manual_check_accepted,
    csv, call

\* --------------------------------------------------------------- bounds
\* free pull requests of a small table
MaxPRs == 2
\* pull requests added to a bulk table next to its block of identical PRs
MaxExtra == 2
\* rows of a pool handed directly to stratified_n_sample
MaxPool == 4
\* largest n handed directly to stratified_n_sample is MaxPool + MaxOver
MaxOver == 1
\* a stratum of at most MaxExact rows is shuffled in every possible way
MaxExact == 3
\* a larger stratum is shuffled by the rotations 0..MaxShift of its id order
MaxShift == 2

\* ----------------------------------------------------------- value domains
NaT == "NaT"
SeqRange(s) == {s[i] : i \in 1..Len(s)}
\* every agent value of the inputs, in the order pandas sorts group keys
\* (lexicographic on code points); "Jules" is an agent outside the roster
SortedAgentValues ==
    <<"Claude_Code", "Copilot", "Cursor", "Devin", "Jules", "OpenAI_Codex">>

\* -------------------------------------------------------------- helpers
Min(a, b) == IF a <= b THEN a ELSE b
notna(x) == x # NaT

RECURSIVE SumOver(_, _)
SumOver(S, f) ==
    IF S = {} THEN 0
    ELSE LET x == CHOOSE y \in S : TRUE IN f[x] + SumOver(S \ {x}, f)

\* all subsets of S with exactly k members
RECURSIVE KSubsets(_, _)
KSubsets(S, k) ==
    IF k = 0 THEN {{}}
    ELSE IF Cardinality(S) < k THEN {}
    ELSE LET x == CHOOSE y \in S : TRUE
         IN  {T \cup {x} : T \in KSubsets(S \ {x}, k - 1)} \cup KSubsets(S \ {x}, k)

\* the rows of S as a sequence in increasing id
RECURSIVE ById(_)
ById(S) ==
    IF S = {} THEN <<>>
    ELSE LET x == CHOOSE y \in S : \A z \in S : y.id <= z.id
         IN  <<x>> \o ById(S \ {x})

\* every ordering of the rows of S
RECURSIVE AllOrders(_)
AllOrders(S) ==
    IF S = {} THEN {<<>>}
    ELSE UNION {{<<x>> \o t : t \in AllOrders(S \ {x})} : x \in S}

Rotate(s, k) == [i \in 1..Len(s) |-> s[((i - 1 + k) % Len(s)) + 1]]

\* ------------------------------------------------ sklearn train_test_split
\* outcome of a call: a pair of frames, or a raised ValueError
Return(a, b) == [ok |-> TRUE, a |-> a, b |-> b]
Raise == [ok |-> FALSE, a |-> {}, b |-> {}]

\* rng.permutation over the rows of one class.  The generator is seeded, so
\* the code draws one fixed permutation; which one is not known to the model,
\* so every member of a bounded family is a possible draw.
Permutation(S) ==
    IF Cardinality(S) <= MaxExact THEN AllOrders(S)
    ELSE {Rotate(ById(S), k) : k \in 0..Min(MaxShift, Cardinality(S) - 1)}

\* perm_indices_class_i[: n_i[i]]
TakeTrain(perm, n) == {perm[j] : j \in 1..n}
\* mutant: the test slice starts one row early
TakeTest_OffByOne(perm, n, t) == {perm[j] : j \in n..(n + t - 1)}

\* perm_indices_class_i[n_i[i] : n_i[i] + t_i[i]]
TakeTest(perm, n, t) == {perm[j] : j \in (n + 1)..(n + t)}

\* the loop of _approximate_mode over the remainders, largest first; a tie is
\* broken by rng.choice, so every choice among the tied classes is possible
RECURSIVE AddRemainders(_, _, _, _)
AddRemainders(floored, remainder, need_to_add, values) ==
    IF need_to_add = 0 \/ values = {} THEN {floored}
    ELSE LET value == CHOOSE v \in values : \A w \in values : w <= v
             inds == {c \in DOMAIN remainder : remainder[c] = value}
             add_now == Min(Cardinality(inds), need_to_add)
         IN  UNION { AddRemainders(
                       [c \in DOMAIN floored |->
                           IF c \in chosen THEN floored[c] + 1 ELSE floored[c]],
                       remainder, need_to_add - add_now, values \ {value})
                     : chosen \in KSubsets(inds, add_now) }

\* _approximate_mode(class_counts, n_draws, rng): continuous = counts / sum *
\* n_draws is kept exact (floor and remainder of counts * n_draws over sum)
ApproximateMode(class_counts, n_draws) ==
    LET classes == DOMAIN class_counts
        total == SumOver(classes, class_counts)
        floored == [c \in classes |-> (class_counts[c] * n_draws) \div total]
        remainder == [c \in classes |-> (class_counts[c] * n_draws) % total]
        need_to_add == n_draws - SumOver(classes, floored)
    IN  IF need_to_add > 0
        THEN AddRemainders(floored, remainder, need_to_add,
                           {remainder[c] : c \in classes})
        ELSE {floored}

\* the per-class loop of StratifiedShuffleSplit._iter_indices
RECURSIVE SplitClasses(_, _, _, _)
SplitClasses(cs, class_rows, n_i, t_i) ==
    IF cs = {} THEN {[a |-> {}, b |-> {}]}
    ELSE LET c == CHOOSE x \in cs : TRUE
         IN  { [a |-> r.a \cup TakeTrain(p, n_i[c]),
                b |-> r.b \cup TakeTest(p, n_i[c], t_i[c])]
               : r \in SplitClasses(cs \ {c}, class_rows, n_i, t_i),
                 p \in Permutation(class_rows[c]) }

\* StratifiedShuffleSplit's checks on the classes of y
StratifyFails(class_counts, n_train, n_test) ==
    \/ \E c \in DOMAIN class_counts : class_counts[c] < 2
    \/ n_train < Cardinality(DOMAIN class_counts)
    \/ n_test < Cardinality(DOMAIN class_counts)

\* train_test_split(df, test_size=test_size, stratify=df[col], random_state=..)
\* as the set of outcomes the call can have
TrainTestSplit(df, test_size, col) ==
    LET n_samples == Cardinality(df)
        n_test == test_size
        n_train == n_samples - n_test
        classes == {p[col] : p \in df}
        class_rows == [c \in classes |-> {p \in df : p[col] = c}]
        class_counts == [c \in classes |-> Cardinality(class_rows[c])]
    IN  IF n_test >= n_samples \/ n_test <= 0 \/ n_train = 0 THEN {Raise}
        ELSE IF StratifyFails(class_counts, n_train, n_test) THEN {Raise}
        ELSE UNION { UNION { { Return(r.a, r.b)
                               : r \in SplitClasses(classes, class_rows, n_i, t_i) }
                             : t_i \in ApproximateMode(
                                   [c \in classes |-> class_counts[c] - n_i[c]],
                                   n_test) }
                     : n_i \in ApproximateMode(class_counts, n_train) }

\* mutant: the n == len(df) branch returns its pair the wrong way round
StratifiedNSample_WholeSwapped(df, n0, col) ==
    LET n == Min(n0, Cardinality(df))
    IN  IF n = 0 THEN {Return({}, df)}
        ELSE IF n = Cardinality(df) THEN {Return({}, df)}
        ELSE TrainTestSplit(df, Cardinality(df) - n, col)

\* ------------------------------------------- samples.py stratified_n_sample
StratifiedNSample(df, n0, col) ==
    LET n == Min(n0, Cardinality(df))
    IN  IF n = 0 THEN {Return({}, df)}
        ELSE IF n = Cardinality(df) THEN {Return(df, {})}
        ELSE TrainTestSplit(df, Cardinality(df) - n, col)

\* ------------------------------------------------------- TABLE 1 LOGIC
\* repos.loc[repos["stars"] >= MIN_STARS, "id"]
RepoIds(repos_) == {r.id : r \in {x \in repos_ : x.stars >= MIN_STARS}}

\* prs[(prs["repo_id"].isin(repo_ids)) & (prs["state"] == "closed")]
Selected(prs_, repo_ids_) ==
    {p \in prs_ : p.repo_id \in repo_ids_ /\ p.state = "closed"}

\* selected[selected["user"].isin(BOT_LIST)]
BotAssigned(selected_) == {p \in selected_ : p.user \in BOT_LIST}

\* mutant: the user_type test is dropped, any comment counts as human
HumanCommentedIds_AnyComment(comments_) == {c.pr_id : c \in comments_}

\* comments.loc[comments["user_type"] == "User", "pr_id"]
HumanCommentedIds(comments_) ==
    {c.pr_id : c \in {x \in comments_ : x.user_type = "User"}}

\* bot_assigned.loc[~bot_assigned["id"].isin(human_commented_ids), "id"]
ExcludedIds(bot_assigned_, human_commented_ids_) ==
    {p.id : p \in {x \in bot_assigned_ : x.id \notin human_commented_ids_}}

\* kept["is_merged"] = kept["merged_at"].notna()
WithIsMerged(p) ==
    [id |-> p.id, repo_id |-> p.repo_id, agent |-> p.agent, user |-> p.user,
     state |-> p.state, merged_at |-> p.merged_at,
     is_merged |-> notna(p.merged_at)]

\* mutant: the exclusion filters the whole PR table instead of selected
Kept_FromPrs(selected_, excluded_ids_) ==
    {WithIsMerged(p) : p \in {x \in prs : x.id \notin excluded_ids_}}

\* selected[~selected["id"].isin(excluded_ids)] with the is_merged column
Kept(selected_, excluded_ids_) ==
    {WithIsMerged(p) : p \in {x \in selected_ : x.id \notin excluded_ids_}}

\* kept.groupby("agent").agg(total=("id","count"), merged=("is_merged","sum"))
\* .reset_index(): one row per agent present in kept, keys in sorted order
GroupByAgent(kept_) ==
    LET keys == SelectSeq(SortedAgentValues,
                          LAMBDA a : \E p \in kept_ : p.agent = a)
    IN  [i \in 1..Len(keys) |->
            [agent |-> keys[i],
             total |-> Cardinality({p \in kept_ : p.agent = keys[i]}),
             merged |-> Cardinality({p \in kept_ :
                                        p.agent = keys[i] /\ p.is_merged})]]

\* mutant: the subtraction is written the other way round
WithRejected_Reversed(table) ==
    [i \in 1..Len(table) |->
        [agent |-> table[i].agent, total |-> table[i].total,
         merged |-> table[i].merged,
         rejected |-> table[i].merged - table[i].total]]

\* table["rejected"] = table["total"] - table["merged"]
WithRejected(table) ==
    [i \in 1..Len(table) |->
        [agent |-> table[i].agent, total |-> table[i].total,
         merged |-> table[i].merged,
         rejected |-> table[i].total - table[i].merged]]

\* mutant: the roster filter is left out
IsinAgents_NoFilter(table) == table

\* table[table["agent"].isin(AGENTS)]
IsinAgents(table) == SelectSeq(table, LAMBDA r : r.agent \in SeqRange(AGENTS))

\* order = {a: i for i, a in enumerate(AGENTS)}
order == [a \in SeqRange(AGENTS) |-> CHOOSE i \in 1..Len(AGENTS) : AGENTS[i] = a]

\* table1.sort_values("__order"): insertion of each row by its __order key
RECURSIVE SortValues(_)
SortValues(table) ==
    IF table = <<>> THEN <<>>
    ELSE LET rest == SortValues(Tail(table))
             r == Head(table)
             before == SelectSeq(rest, LAMBDA x : order[x.agent] < order[r.agent])
             after == SelectSeq(rest, LAMBDA x : order[x.agent] >= order[r.agent])
         IN  before \o <<r>> \o after

\* samples.py lines 83-89
Table1OfSamples(kept_) == IsinAgents(WithRejected(GroupByAgent(kept_)))
\* table1.py lines 162-175
Table1OfTable1(kept_) == SortValues(IsinAgents(WithRejected(GroupByAgent(kept_))))

\* int(table1[col].sum())
RECURSIVE ColSum(_, _)
ColSum(table, col) ==
    IF table = <<>> THEN 0 ELSE Head(table)[col] + ColSum(Tail(table), col)

\* df[EXPORT_COLS]
Export(df) == {[c \in EXPORT_COLS |-> p[c]] : p \in df}

\* ------------------------------------------------------------- the inputs
\* one repository, just below or at the star threshold
StarValues == {MIN_STARS - 1, MIN_STARS}
RepoTables == {{[id |-> 1, stars |-> s]} : s \in StarValues}
\* repo_id 2 matches no repository
RepoRefs == {1, 2}
Timestamp == "2024-01-01"

PR(i, r, a, u, st, m) ==
    [id |-> i, repo_id |-> r, agent |-> a, user |-> u, state |-> st,
     merged_at |-> m]

\* small tables that vary what the selection reads
SelAttrs == [repo_id : RepoRefs, user : {"alice", "cursor[bot]"},
             state : {"closed", "open"}]
SelTables ==
    UNION { { {PR(i, f[i].repo_id, "Devin", f[i].user, f[i].state, NaT)
               : i \in 1..k} : f \in [1..k -> SelAttrs] } : k \in 0..MaxPRs }

\* small tables that vary what the aggregation reads
AggAttrs == [agent : {"Copilot", "Devin", "Jules"}, merged_at : {NaT, Timestamp}]
AggTables ==
    UNION { { {PR(i, 1, f[i].agent, "alice", "closed", f[i].merged_at)
               : i \in 1..k} : f \in [1..k -> AggAttrs] } : k \in 0..MaxPRs }

\* tables with pools larger than the agreement sample: blocks of BulkSize
\* PRs of one agent (merged, rejected or both), and up to MaxExtra more PRs
\* that are all merged or all rejected
BulkSize == VALIDATE_AGREEMENT_SAMPLE + 1
BulkShapes == {<<BulkSize, 0>>, <<0, BulkSize>>, <<BulkSize, BulkSize>>}
Block(sh, a) ==
    {PR(i, 1, a, "alice", "closed", Timestamp) : i \in 1..sh[1]}
    \cup {PR(sh[1] + i, 1, a, "alice", "closed", NaT) : i \in 1..sh[2]}
BulkTables ==
    UNION { { Block(sh, a)
              \cup {PR(sh[1] + sh[2] + i, 1, f[i], "alice", "closed", m)
                    : i \in 1..k}
              : sh \in BulkShapes, a \in {"Devin", "Jules"},
                m \in {NaT, Timestamp}, f \in [1..k -> {"Copilot", "Jules"}] }
            : k \in 0..MaxExtra }

\* no comment, or one comment on one of the PRs of a small table
CommentValues == [pr_id : 1..MaxPRs, user_type : {"User", "Bot"}]
CommentTables == {{}} \cup {{c} : c \in CommentValues}

\* the three datasets at the data source
Source(r, t, c) ==
    [f \in DATASETS |->
        IF f = "repository.parquet" THEN r
        ELSE IF f = "pull_request.parquet" THEN t ELSE c]
Sources ==
    {Source(r, t, c) : r \in RepoTables, t \in SelTables, c \in CommentTables}
    \cup {Source({[id |-> 1, stars |-> MIN_STARS]}, t, {})
          : t \in AggTables \cup BulkTables}

\* -------------------------------------------------------- state groups
ctl == <<script, pc, done, error, hf>>
inputs == <<repos, prs, comments>>
sel == <<repo_ids, selected, selected_ids, bot_assigned, human_commented_ids,
         excluded_ids, kept, kept_ids>>
pools == <<combined_accepted, combined_rejected,
           ACCEPT_SAMPLE_SIZE, REJECT_SAMPLE_SIZE>>
agreement == <<sample_check_rejected, reject_remaining,
               sample_check_accepts, accept_remaining>>
manual == <<manual_check_rejected, manual_check_accepted>>
vars == <<ctl, out_dir, inputs, sel, table1, pools, agreement, manual, csv, call>>

NoCall == [pool |-> {}, n |-> 0, out |-> Raise, returned |-> FALSE]

Blank ==
    /\ done = {} /\ error = "none" /\ out_dir = FALSE
    /\ repos = {} /\ prs = {} /\ comments = {}
    /\ repo_ids = {} /\ selected = {} /\ selected_ids = {}
    /\ bot_assigned = {} /\ human_commented_ids = {} /\ excluded_ids = {}
    /\ kept = {} /\ kept_ids = {} /\ table1 = <<>>
    /\ combined_accepted = {} /\ combined_rejected = {}
    /\ ACCEPT_SAMPLE_SIZE = 0 /\ REJECT_SAMPLE_SIZE = 0
    /\ sample_check_rejected = {} /\ reject_remaining = {}
    /\ sample_check_accepts = {} /\ accept_remaining = {}
    /\ manual_check_rejected = {} /\ manual_check_accepted = {}
    /\ csv = [f \in CSV_NAMES |-> [exists |-> FALSE, rows |-> {}]]

\* a run of either script starts with nothing loaded and nothing written
Init ==
    /\ script \in {"samples", "table1"}
    /\ hf \in Sources
    /\ pc = "mkdir"
    /\ call = NoCall
    /\ Blank

\* control moves from step `from` to step `to`
Step(from, to) ==
    /\ pc = from
    /\ pc' = to
    /\ done' = done \cup {from}
    /\ UNCHANGED <<script, error, hf>>

\* pd.read_parquet(f"{HF_BASE}/{name}", columns=columns)
read_parquet(name) == hf[name]

\* an exception ends the run at step `from`
Abort(from, e) ==
    /\ pc = from
    /\ pc' = "failed"
    /\ error' = e
    /\ UNCHANGED <<script, done, hf>>

\* ---------------------------------------------------------------- actions
\* samples.py line 29: OUT_DIR.mkdir(exist_ok=True); table1.py line 107:
\* out_dir.mkdir(parents=True, exist_ok=True)
MkOutDir ==
    /\ Step("mkdir", "load_repos")
    /\ out_dir' = TRUE
    /\ UNCHANGED <<inputs, sel, table1, pools, agreement, manual, csv, call>>

\* without parents=True the mkdir of samples.py raises when ./data is missing
MkOutDirFails ==
    /\ script = "samples"
    /\ Abort("mkdir", "FileNotFoundError")
    /\ UNCHANGED <<out_dir, inputs, sel, table1, pools, agreement, manual, csv, call>>

LoadRepos ==
    /\ Step("load_repos", "load_prs")
    /\ repos' = read_parquet("repository.parquet")
    /\ UNCHANGED <<out_dir, prs, comments, sel, table1, pools, agreement, manual, csv, call>>

LoadPrs ==
    /\ Step("load_prs", "load_comments")
    /\ prs' = read_parquet("pull_request.parquet")
    /\ UNCHANGED <<out_dir, repos, comments, sel, table1, pools, agreement, manual, csv, call>>

LoadComments ==
    /\ Step("load_comments", "select")
    /\ comments' = read_parquet("pr_comments.parquet")
    /\ UNCHANGED <<out_dir, repos, prs, sel, table1, pools, agreement, manual, csv, call>>

\* mutant: the failed load is swallowed and the run goes on with an empty frame
LoadFails_Swallowed ==
    /\ \E from \in {"load_repos", "load_prs", "load_comments"} :
           /\ pc = from
           /\ pc' = (IF from = "load_repos" THEN "load_prs"
                     ELSE IF from = "load_prs" THEN "load_comments" ELSE "select")
           /\ done' = done \cup {from}
           /\ error' = "load"
           /\ UNCHANGED <<script, hf>>
    /\ UNCHANGED <<out_dir, inputs, sel, table1, pools, agreement, manual, csv, call>>

\* pd.read_parquet raises (missing or unreachable source): the exception is
\* not caught, the script ends
LoadFails ==
    /\ \E from \in {"load_repos", "load_prs", "load_comments"} :
           Abort(from, "load")
    /\ UNCHANGED <<out_dir, inputs, sel, table1, pools, agreement, manual, csv, call>>

\* samples.py 62-66, table1.py 128-135
Select ==
    /\ Step("select", "exclude")
    /\ repo_ids' = RepoIds(repos)
    /\ selected' = Selected(prs, RepoIds(repos))
    /\ selected_ids' = IF script = "table1"
                       THEN {p.id : p \in Selected(prs, RepoIds(repos))}
                       ELSE {}
    /\ UNCHANGED <<out_dir, inputs, bot_assigned, human_commented_ids,
                   excluded_ids, kept, kept_ids, table1, pools, agreement,
                   manual, csv, call>>

\* samples.py 68-81, table1.py 138-159
Exclude ==
    /\ Step("exclude", "aggregate")
    /\ bot_assigned' = BotAssigned(selected)
    /\ human_commented_ids' = HumanCommentedIds(comments)
    /\ excluded_ids' = ExcludedIds(BotAssigned(selected), HumanCommentedIds(comments))
    /\ kept' = Kept(selected,
                    ExcludedIds(BotAssigned(selected), HumanCommentedIds(comments)))
    /\ kept_ids' = IF script = "table1"
                   THEN selected_ids \ ExcludedIds(BotAssigned(selected),
                                                   HumanCommentedIds(comments))
                   ELSE {}
    /\ UNCHANGED <<out_dir, inputs, repo_ids, selected, selected_ids, table1,
                   pools, agreement, manual, csv, call>>

\* samples.py 83-89, table1.py 162-175
Aggregate ==
    /\ Step("aggregate", IF script = "samples" THEN "split" ELSE "print")
    /\ table1' = IF script = "samples" THEN Table1OfSamples(kept)
                                       ELSE Table1OfTable1(kept)
    /\ UNCHANGED <<out_dir, inputs, sel, pools, agreement, manual, csv, call>>

\* samples.py 92-97
Split ==
    /\ Step("split", "agreement_rejected")
    /\ combined_accepted' = {p \in kept : p.is_merged}
    /\ combined_rejected' = {p \in kept : ~p.is_merged}
    /\ ACCEPT_SAMPLE_SIZE' = ColSum(table1, "merged")
    /\ REJECT_SAMPLE_SIZE' = ColSum(table1, "rejected")
    /\ UNCHANGED <<out_dir, inputs, sel, table1, agreement, manual, csv, call>>

\* samples.py 100-102
AgreementRejected ==
    /\ \E o \in StratifiedNSample(combined_rejected, VALIDATE_AGREEMENT_SAMPLE, "agent") :
          IF o.ok
          THEN /\ Step("agreement_rejected", "agreement_accepts")
               /\ sample_check_rejected' = o.a
               /\ reject_remaining' = o.b
          ELSE /\ Abort("agreement_rejected", "ValueError")
               /\ UNCHANGED <<sample_check_rejected, reject_remaining>>
    /\ UNCHANGED <<out_dir, inputs, sel, table1, pools, sample_check_accepts,
                   accept_remaining, manual, csv, call>>

\* samples.py 103-105
AgreementAccepts ==
    /\ \E o \in StratifiedNSample(combined_accepted, VALIDATE_AGREEMENT_SAMPLE, "agent") :
          IF o.ok
          THEN /\ Step("agreement_accepts", "manual_rejected")
               /\ sample_check_accepts' = o.a
               /\ accept_remaining' = o.b
          ELSE /\ Abort("agreement_accepts", "ValueError")
               /\ UNCHANGED <<sample_check_accepts, accept_remaining>>
    /\ UNCHANGED <<out_dir, inputs, sel, table1, pools, sample_check_rejected,
                   reject_remaining, manual, csv, call>>

\* samples.py 108-110
ManualRejected ==
    /\ \E o \in StratifiedNSample(reject_remaining, REJECT_SAMPLE_SIZE, "agent") :
          IF o.ok
          THEN /\ Step("manual_rejected", "manual_accepted")
               /\ manual_check_rejected' = o.a
          ELSE /\ Abort("manual_rejected", "ValueError")
               /\ UNCHANGED manual_check_rejected
    /\ UNCHANGED <<out_dir, inputs, sel, table1, pools, agreement,
                   manual_check_accepted, csv, call>>

\* samples.py 111-113
ManualAccepted ==
    /\ \E o \in StratifiedNSample(accept_remaining, ACCEPT_SAMPLE_SIZE, "agent") :
          IF o.ok
          THEN /\ Step("manual_accepted", "write_sample_rejected")
               /\ manual_check_accepted' = o.a
          ELSE /\ Abort("manual_accepted", "ValueError")
               /\ UNCHANGED manual_check_accepted
    /\ UNCHANGED <<out_dir, inputs, sel, table1, pools, agreement,
                   manual_check_rejected, csv, call>>

\* df[EXPORT_COLS].to_csv(OUT_DIR / f, index=False)
ToCsv(from, to, f, df) ==
    /\ Step(from, to)
    /\ csv' = [csv EXCEPT ![f] = [exists |-> TRUE, rows |-> Export(df)]]
    /\ UNCHANGED <<out_dir, inputs, sel, table1, pools, agreement, manual, call>>

\* samples.py 118-129
WriteSampleRejected ==
    ToCsv("write_sample_rejected", "write_sample_accepts",
          "sample_check_rejected.csv", sample_check_rejected)
WriteSampleAccepts ==
    ToCsv("write_sample_accepts", "write_manual_rejected",
          "sample_check_accepts.csv", sample_check_accepts)
WriteManualRejected ==
    ToCsv("write_manual_rejected", "write_manual_accepted",
          "manual_check_rejected.csv", manual_check_rejected)
WriteManualAccepted ==
    ToCsv("write_manual_accepted", "print",
          "manual_check_accepted.csv", manual_check_accepted)

\* samples.py 131, table1.py 178-189: console output, then the script ends
PrintResults ==
    /\ Step("print", "done")
    /\ UNCHANGED <<out_dir, inputs, sel, table1, pools, agreement, manual, csv, call>>

Next ==
    \/ MkOutDir \/ MkOutDirFails
    \/ LoadRepos \/ LoadPrs \/ LoadComments \/ LoadFails
    \/ Select \/ Exclude \/ Aggregate \/ Split
    \/ AgreementRejected \/ AgreementAccepts
    \/ ManualRejected \/ ManualAccepted
    \/ WriteSampleRejected \/ WriteSampleAccepts
    \/ WriteManualRejected \/ WriteManualAccepted
    \/ PrintResults

Spec == Init /\ [][Next]_vars

\* ------------------------------ stratified_n_sample called on its own
SampleRows(k, f) == {[id |-> i, agent |-> f[i]] : i \in 1..k}
SamplePools ==
    UNION { {SampleRows(k, f) : f \in [1..k -> {"Cursor", "Devin"}]}
            : k \in 0..MaxPool }

InitSample ==
    /\ script = "samples"
    /\ hf = Source({}, {}, {})
    /\ pc = "call"
    /\ \E df \in SamplePools, n \in 0..(MaxPool + MaxOver) :
          call = [pool |-> df, n |-> n, out |-> Raise, returned |-> FALSE]
    /\ Blank

\* a, b = stratified_n_sample(df, n, "agent")
Call ==
    /\ pc = "call"
    /\ \E o \in StratifiedNSample(call.pool, call.n, "agent") :
          /\ call' = [call EXCEPT !.out = o, !.returned = o.ok]
          /\ pc' = IF o.ok THEN "returned" ELSE "raised"
          /\ error' = IF o.ok THEN "none" ELSE "ValueError"
    /\ UNCHANGED <<script, done, hf, out_dir, inputs, sel, table1, pools,
                   agreement, manual, csv>>

NextSample == Call

SpecSample == InitSample /\ [][NextSample]_vars

\* ----------------------------------------------------------------- claims
Ids(df) == {p.id : p \in df}
Roster == SeqRange(AGENTS)
EligibleRepo(p) == \E r \in repos : r.id = p.repo_id /\ r.stars >= MIN_STARS
HasUserComment(p) == \E c \in comments : c.pr_id = p.id /\ c.user_type = "User"
IsPartition(a, b, whole) == a \cup b = whole /\ a \cap b = {}

\* C1: once the selection has run, a PR of the loaded table is kept exactly
\* when its repository has at least MIN_STARS stars, its state is "closed",
\* and it is not (bot-authored with no User comment); excluded is exactly
\* the bot-assigned PRs without a User comment, inside bot_assigned, inside
\* selected.
C1_SelectorMembership ==
    "exclude" \in done =>
        /\ \A p \in prs :
              p.id \in Ids(kept) <=>
                 /\ EligibleRepo(p)
                 /\ p.state = "closed"
                 /\ ~(p.user \in BOT_LIST /\ ~HasUserComment(p))
        /\ \A p \in prs :
              p.id \in excluded_ids <=>
                 (p \in bot_assigned /\ p.id \notin human_commented_ids)
        /\ excluded_ids \subseteq Ids(bot_assigned)
        /\ bot_assigned \subseteq selected
        /\ selected \subseteq prs
        /\ Ids(kept) = Ids(selected) \ excluded_ids
        /\ script = "table1" => kept_ids = Ids(kept)

\* a bot-authored PR with a User comment is kept while another bot-authored
\* PR is excluded
C1_Witness ==
    /\ "exclude" \in done
    /\ \E p \in prs, q \in prs :
          /\ p.user \in BOT_LIST /\ HasUserComment(p) /\ p.id \in Ids(kept)
          /\ q.id \in excluded_ids

\* C2 as stated: kept is a strict subset of selected for every input.
C2_KeptStrictSubset ==
    "exclude" \in done =>
        /\ Ids(kept) \subseteq Ids(selected)
        /\ Ids(kept) # Ids(selected)

\* C2 amended: kept is a subset of selected, equal to it exactly when no PR
\* is excluded, and every kept row is a selected row (no PR is added back).
C2_KeptSubset ==
    "exclude" \in done =>
        /\ Ids(kept) \subseteq Ids(selected)
        /\ (Ids(kept) = Ids(selected)) <=> (excluded_ids = {})
        /\ \A k \in kept : \E p \in selected : k = WithIsMerged(p)

\* no PR is excluded from a non-empty selection that leaves PRs unselected
C2_Witness ==
    /\ "exclude" \in done
    /\ selected # {}
    /\ excluded_ids = {}
    /\ Ids(kept) = Ids(selected)
    /\ Ids(prs) # Ids(selected)

\* C3: every Table 1 row counts the kept PRs of its agent, the merged ones
\* among them, and rejected = total - merged; the totals add up to the
\* number of kept PRs whose agent is in the roster.
C3_Aggregation ==
    "aggregate" \in done =>
        /\ \A i \in 1..Len(table1) :
              LET r == table1[i]
              IN  /\ r.total = Cardinality({p \in kept : p.agent = r.agent})
                  /\ r.merged = Cardinality({p \in kept : p.agent = r.agent
                                                /\ notna(p.merged_at)})
                  /\ r.rejected = r.total - r.merged
                  /\ 0 <= r.merged /\ r.merged <= r.total /\ r.rejected >= 0
        /\ ColSum(table1, "total") =
              Cardinality({p \in kept : p.agent \in Roster})

\* a row with merged and rejected PRs, next to a kept PR of a non-roster agent
C3_Witness ==
    /\ "aggregate" \in done
    /\ \E i \in 1..Len(table1) : table1[i].merged > 0 /\ table1[i].rejected > 0
    /\ \E p \in kept : p.agent \notin Roster

\* C4 as stated: Table 1 has one row per roster agent, in roster order,
\* also when a roster agent has no kept PR.
C4_OneRowPerRosterAgent ==
    "aggregate" \in done =>
        /\ Len(table1) = Len(AGENTS)
        /\ \A i \in 1..Len(table1) : table1[i].agent = AGENTS[i]

\* C4 amended: Table 1 has exactly one row for each roster agent that has a
\* kept PR and no other row, and its rows are in roster order.
C4_OneRowPerPresentRosterAgent ==
    "aggregate" \in done =>
        /\ {table1[i].agent : i \in 1..Len(table1)} =
              {p.agent : p \in kept} \cap Roster
        /\ \A i, j \in 1..Len(table1) :
              i < j => order[table1[i].agent] < order[table1[j].agent]

\* two roster agents have rows while a non-roster agent with a kept PR and
\* the roster agents without kept PRs have none
C4_Witness ==
    /\ "aggregate" \in done
    /\ Len(table1) = 2
    /\ \E p \in kept : p.agent \notin Roster

\* C5 as stated: every call of stratified_n_sample returns a sample and a
\* remainder that partition the pool, the sample of min(n, |pool|) rows.
C5_SamplingPartition ==
    pc \in {"returned", "raised"} =>
        /\ call.returned
        /\ IsPartition(call.out.a, call.out.b, call.pool)
        /\ Cardinality(call.out.a) = Min(call.n, Cardinality(call.pool))
        /\ Cardinality(call.out.b) =
              Cardinality(call.pool) - Min(call.n, Cardinality(call.pool))

\* a stratum of the pool is too small for a stratified split of n rows
TooFewMembers(df, n) ==
    LET classes == {p.agent : p \in df}
    IN  \/ \E c \in classes : Cardinality({p \in df : p.agent = c}) < 2
        \/ n < Cardinality(classes)
        \/ Cardinality(df) - n < Cardinality(classes)

\* C7 as stated: a call with 0 < n < |pool| on a pool with too small a
\* stratum does not fail; it returns a sample and a remainder.
C7_SmallStratumDoesNotFail ==
    ( /\ pc \in {"returned", "raised"}
      /\ 0 < call.n /\ call.n < Cardinality(call.pool)
      /\ TooFewMembers(call.pool, call.n) )
    => (call.returned /\ error = "none")

SampleIds ==
    [f \in CSV_NAMES |->
        IF f = "sample_check_rejected.csv" THEN Ids(sample_check_rejected)
        ELSE IF f = "sample_check_accepts.csv" THEN Ids(sample_check_accepts)
        ELSE IF f = "manual_check_rejected.csv" THEN Ids(manual_check_rejected)
        ELSE Ids(manual_check_accepted)]

\* C6: once the four samples are drawn, no PR id is in two of them, the
\* accepted and rejected pools partition kept, and the CSV files written
\* hold pairwise disjoint ids as well.
C6_SamplesDisjoint ==
    (script = "samples" /\ "manual_accepted" \in done) =>
        /\ IsPartition(combined_accepted, combined_rejected, kept)
        /\ \A f \in CSV_NAMES, g \in CSV_NAMES :
              f # g => SampleIds[f] \cap SampleIds[g] = {}
        /\ \A f \in CSV_NAMES, g \in CSV_NAMES :
              f # g => Ids(csv[f].rows) \cap Ids(csv[g].rows) = {}
        /\ \A f \in CSV_NAMES : csv[f].exists => Ids(csv[f].rows) = SampleIds[f]

\* a completed run whose four samples are all non-empty
C6_Witness ==
    /\ pc = "done" /\ script = "samples"
    /\ \A f \in CSV_NAMES : csv[f].exists /\ csv[f].rows # {}

\* C9: a run that failed to load a dataset has computed nothing and written
\* no CSV file, and a CSV file exists only after all three loads succeeded.
C9_FailFast ==
    /\ error = "load" =>
          /\ pc = "failed"
          /\ done \subseteq {"mkdir", "load_repos", "load_prs"}
          /\ \A f \in CSV_NAMES : ~csv[f].exists
          /\ selected = {} /\ kept = {} /\ table1 = <<>>
    /\ (\E f \in CSV_NAMES : csv[f].exists) =>
          /\ {"load_repos", "load_prs", "load_comments"} \subseteq done
          /\ error = "none"

\* the load of the comments fails after the first two loads succeeded
C9_Witness ==
    /\ error = "load"
    /\ {"load_repos", "load_prs"} \subseteq done
    /\ prs # {}

\* C10: when every kept PR has a roster agent and the manual-check samples
\* are drawn, the target sizes are the pool sizes, so each manual-check
\* sample is the whole remainder of its pool.
C10_ManualCheckIsRemainder ==
    ( /\ script = "samples" /\ "manual_accepted" \in done
      /\ \A p \in kept : p.agent \in Roster )
    => /\ ACCEPT_SAMPLE_SIZE = Cardinality(combined_accepted)
       /\ REJECT_SAMPLE_SIZE = Cardinality(combined_rejected)
       /\ ACCEPT_SAMPLE_SIZE >= Cardinality(accept_remaining)
       /\ REJECT_SAMPLE_SIZE >= Cardinality(reject_remaining)
       /\ manual_check_accepted = accept_remaining
       /\ manual_check_rejected = reject_remaining
       /\ sample_check_accepts \cup manual_check_accepted = combined_accepted
       /\ sample_check_rejected \cup manual_check_rejected = combined_rejected

\* a completed run over roster agents only whose agreement samples left rows
\* of both pools to the manual check
C10_Witness ==
    /\ pc = "done" /\ script = "samples"
    /\ \A p \in kept : p.agent \in Roster
    /\ accept_remaining # {} /\ reject_remaining # {}
    /\ Cardinality(sample_check_accepts) = VALIDATE_AGREEMENT_SAMPLE

====
